---- MODULE Spec2Model ----
(***************************************************************************)
(* A model of the Kadcast k-bucket (src/src/kbucket/bucket.rs) and of the  *)
(* height-indexed broadcast fan-out that runs on top of it.                *)
(*                                                                         *)
(* Time is a counter of ticks: an Instant is the value of `now` when it    *)
(* was taken, and `instant.elapsed()` is `now - instant`.                  *)
(***************************************************************************)
EXTENDS Integers, Sequences, FiniteSets, TLC

VARIABLES
    nodes,          \* Bucket.nodes: ArrayVec<Node<V>, K_K>, head = index 1
    pending_node,   \* Bucket.pending_node: Option<Node<V>>
    now,            \* the monotonic clock read by Instant::now()
    prev,           \* the bucket and the clock as the last call found them
    result,         \* the last call: its name, its argument, what it returned
    live,           \* the nodes of the overlay that are running
    stale_records,  \* whether routing tables may still hold peers that are gone
    sent,           \* Some(source) once the application has called broadcast
    net,            \* the Broadcast datagrams in flight
    cache,          \* per node, the decoder cache entry of the payload's UID
    inbox,          \* per node, the bounded inbound channel to the routing task
    got,            \* per node, whether the application callback has fired
    dcache,         \* the decoder cache: an entry per safe_uid
    fed,            \* per safe_uid, the encoded symbols given to decode so far
    returned,       \* per UID, how many times decode returned its payload
    dresult,        \* what the last call of decode returned
    call,           \* the last call of a pure function: its name and argument
    value,          \* what that call returned
    running,        \* whether listen_in is in its receive loop
    chan,           \* the inbound channel of the node whose listen_in runs
    last            \* what the last iteration of the receive loop did

bucket_vars == <<nodes, pending_node, now, prev, result>>

net_vars == <<live, stale_records, sent, net, cache, inbox, got>>

dec_vars == <<dcache, fed, returned, dresult>>

pure_vars == <<call, value>>

in_vars == <<running, chan, last>>

\* what an operation of the bucket, of the overlay, of the decoder, a
\* call of a pure function, a recorded fan-out and the receive loop leave
\* alone
bucket_frame == <<net_vars, dec_vars, pure_vars, in_vars>>
net_frame == <<bucket_vars, dec_vars, pure_vars, in_vars>>
dec_frame == <<bucket_vars, net_vars, pure_vars, in_vars>>
pure_frame == <<bucket_vars, net_vars, dec_vars, in_vars>>
fanout_frame == <<bucket_vars, dec_vars, in_vars>>
in_frame == <<bucket_vars, net_vars, pure_vars>>

\* ------------------------------------------------------------- bounds
\* capacity of a bucket (crate::K_K), scaled down
K_K == 2
\* BucketConfig.node_ttl, in ticks
node_ttl == 2
\* BucketConfig.node_evict_after, in ticks
node_evict_after == 1
\* the clock stops here
MaxTime == 4
\* number of distinct valid node IDs
NumIds == 3
\* bits of a node ID (L = 8 * K_ID_LEN_BYTES), scaled down
IdBits == 2
\* per-bucket fan-out of a broadcast (crate::K_BETA), scaled down
K_BETA == 1
\* capacity of the inbound channel (with_channel_size), scaled down
ChannelSize == 1

\* number of distinct broadcast payloads
NumPayloads == 1
\* number of distinct RaptorQEncoderConf.mtu values among the senders
NumMtus == 2
\* source packets of one encoding (payload length / symbol size), scaled down
SourceSymbols == 2
\* RaptorQEncoderConf.min_repair_packets_per_block, scaled down
min_repair_packets_per_block == 1
\* distinct encoded symbols the decoder is given at most
MaxFeeds == 4

\* bytes of a BinaryKey (crate::K_ID_LEN_BYTES), scaled down
K_ID_LEN_BYTES == 2
\* largest value of the octets that vary in the addresses drawn
MaxOctet == 1
\* most peers in a NodePayload
MaxPeers == 1
\* most bytes in a gossip_frame
MaxFrame == 2

Ids == 1..NumIds
\* an ID for which Node::is_id_valid is false
InvalidId == 0
Instants == 0..MaxTime

\* ------------------------------------------------------------- Option<T>
None == <<>>
Some(x) == <<x>>
is_some(o) == Len(o) = 1
unwrap(o) == o[1]

\* ------------------------------------------------------------- Node<V>
\* NodeEvictionStatus::None
EvNone == [tag |-> "None"]
\* NodeEvictionStatus::Requested(instant)
Requested(instant) == [tag |-> "Requested", instant |-> instant]

\* Node::new: a record is born unflagged, seen at its creation
Node_new(id, t) == [id |-> id, seen_at |-> t, eviction_status |-> EvNone]

\* Node::is_id_valid
is_id_valid(n) == n.id # InvalidId

\* Node::is_alive(duration): seen within `duration`
is_alive(n, duration, t) == t - n.seen_at < duration

\* Node::refresh: seen now, eviction request cleared
refresh(n, t) == [n EXCEPT !.seen_at = t, !.eviction_status = EvNone]

\* Node::flag_for_check
flag_for_check(n, t) == [n EXCEPT !.eviction_status = Requested(t)]

\* ------------------------------------------------------------- Bucket<V>
\* a bucket value: the two fields the operations change
Bucket(ns, p) == [nodes |-> ns, pending_node |-> p]

\* Bucket::new
Bucket_new == Bucket(<<>>, None)

\* ArrayVec::is_full
is_full(ns) == Len(ns) = K_K

\* Iterator::position(|s| s.id().as_binary() == key): 0 when there is none
RECURSIVE position_from(_, _, _)
position_from(ns, key, i) ==
    IF i > Len(ns) THEN 0
    ELSE IF ns[i].id = key THEN i
    ELSE position_from(ns, key, i + 1)

position(ns, key) == position_from(ns, key, 1)

\* Bucket::has_node
has_node(b, key) == \E i \in 1..Len(b.nodes) : b.nodes[i].id = key

\* the slice left as it is, without the rotation
unrotated(ns, old_index) == ns

\* nodes[old_index..].rotate_left(1)
rotate_left_from(ns, old_index) ==
    SubSeq(ns, 1, old_index - 1) \o SubSeq(ns, old_index + 1, Len(ns))
        \o <<ns[old_index]>>

\* refresh_node without the call of Node::refresh on the rotated record
refresh_node_unrefreshed(b, key, t) ==
    LET old_index == position(b.nodes, key) IN
    IF old_index = 0 THEN [b |-> b, ret |-> None]
    ELSE LET ns == rotate_left_from(b.nodes, old_index)
         IN [b |-> [b EXCEPT !.nodes = ns], ret |-> Some(ns[Len(ns)])]

\* Bucket::refresh_node: [b, ret], ret the refreshed record (now the tail)
refresh_node(b, key, t) ==
    LET old_index == position(b.nodes, key) IN
    IF old_index = 0 THEN [b |-> b, ret |-> None]
    ELSE LET rotated == rotate_left_from(b.nodes, old_index)
             ns == [rotated EXCEPT ![Len(rotated)] = refresh(@, t)]
         IN [b |-> [b EXCEPT !.nodes = ns], ret |-> Some(ns[Len(ns)])]

\* insert_pending without the early return on a full bucket
insert_pending_unguarded(b, t) ==
    IF is_some(b.pending_node)
    THEN IF is_alive(unwrap(b.pending_node), node_ttl, t)
         THEN Bucket(Append(b.nodes, unwrap(b.pending_node)), None)
         ELSE Bucket(b.nodes, None)
    ELSE b

\* insert_pending without the liveness test on the pending node
insert_pending_unchecked(b, t) ==
    IF is_full(b.nodes) THEN b
    ELSE IF is_some(b.pending_node)
         THEN Bucket(Append(b.nodes, unwrap(b.pending_node)), None)
         ELSE b

\* Bucket::insert_pending
insert_pending(b, t) ==
    IF is_full(b.nodes) THEN b
    ELSE IF is_some(b.pending_node)
         THEN IF is_alive(unwrap(b.pending_node), node_ttl, t)
              THEN Bucket(Append(b.nodes, unwrap(b.pending_node)), None)
              ELSE Bucket(b.nodes, None)
         ELSE b

\* try_perform_eviction with `<=` for `<` on the eviction timeout
try_perform_eviction_late(b, t) ==
    IF ~is_full(b.nodes) THEN [b |-> b, ret |-> None]
    ELSE IF Len(b.nodes) = 0 THEN [b |-> b, ret |-> None]
    ELSE LET first == b.nodes[1] IN
         IF first.eviction_status.tag = "Requested"
         THEN IF t - first.eviction_status.instant <= node_evict_after
              THEN [b |-> b, ret |-> Some(first)]
              ELSE [b |-> insert_pending([b EXCEPT !.nodes = Tail(@)], t),
                    ret |-> None]
         ELSE IF is_alive(first, node_ttl, t)
              THEN [b |-> b, ret |-> None]
              ELSE LET flagged == flag_for_check(first, t) IN
                   [b |-> [b EXCEPT !.nodes[1] = flagged],
                    ret |-> Some(flagged)]

\* try_perform_eviction dropping a flagged head without waiting
try_perform_eviction_early(b, t) ==
    IF ~is_full(b.nodes) THEN [b |-> b, ret |-> None]
    ELSE IF Len(b.nodes) = 0 THEN [b |-> b, ret |-> None]
    ELSE LET first == b.nodes[1] IN
         IF first.eviction_status.tag = "Requested"
         THEN [b |-> insert_pending([b EXCEPT !.nodes = Tail(@)], t),
               ret |-> None]
         ELSE IF is_alive(first, node_ttl, t)
              THEN [b |-> b, ret |-> None]
              ELSE LET flagged == flag_for_check(first, t) IN
                   [b |-> [b EXCEPT !.nodes[1] = flagged],
                    ret |-> Some(flagged)]

\* try_perform_eviction without the call of insert_pending after pop_at(0)
try_perform_eviction_unpromoted(b, t) ==
    IF ~is_full(b.nodes) THEN [b |-> b, ret |-> None]
    ELSE IF Len(b.nodes) = 0 THEN [b |-> b, ret |-> None]
    ELSE LET first == b.nodes[1] IN
         IF first.eviction_status.tag = "Requested"
         THEN IF t - first.eviction_status.instant < node_evict_after
              THEN [b |-> b, ret |-> Some(first)]
              ELSE [b |-> [b EXCEPT !.nodes = Tail(@)], ret |-> None]
         ELSE IF is_alive(first, node_ttl, t)
              THEN [b |-> b, ret |-> None]
              ELSE LET flagged == flag_for_check(first, t) IN
                   [b |-> [b EXCEPT !.nodes[1] = flagged],
                    ret |-> Some(flagged)]

\* Bucket::try_perform_eviction: [b, ret], ret the candidate for eviction
try_perform_eviction(b, t) ==
    IF ~is_full(b.nodes) THEN [b |-> b, ret |-> None]
    ELSE IF Len(b.nodes) = 0 THEN [b |-> b, ret |-> None]
    ELSE LET first == b.nodes[1] IN
         IF first.eviction_status.tag = "Requested"
         THEN IF t - first.eviction_status.instant < node_evict_after
              THEN [b |-> b, ret |-> Some(first)]
              ELSE [b |-> insert_pending([b EXCEPT !.nodes = Tail(@)], t),
                    ret |-> None]
         ELSE IF is_alive(first, node_ttl, t)
              THEN [b |-> b, ret |-> None]
              ELSE LET flagged == flag_for_check(first, t) IN
                   [b |-> [b EXCEPT !.nodes[1] = flagged],
                    ret |-> Some(flagged)]

\* Bucket::pending_eviction_node
pending_eviction_node(b) ==
    IF Len(b.nodes) > 0 /\ b.nodes[1].eviction_status # EvNone
    THEN Some(b.nodes[1])
    ELSE None

\* try_push on an ArrayVec one slot short
try_push_short(ns, node) ==
    IF Len(ns) >= K_K - 1 /\ Len(ns) > 0 THEN [ok |-> FALSE, nodes |-> ns]
    ELSE [ok |-> TRUE, nodes |-> Append(ns, node)]

\* try_push that puts the record at the head
try_push_front(ns, node) ==
    IF is_full(ns) THEN [ok |-> FALSE, nodes |-> ns]
    ELSE [ok |-> TRUE, nodes |-> <<node>> \o ns]

\* self.nodes.try_push(node): Err when the ArrayVec is at capacity
try_push(ns, node) ==
    IF is_full(ns) THEN [ok |-> FALSE, nodes |-> ns]
    ELSE [ok |-> TRUE, nodes |-> Append(ns, node)]

\* the Err arm with the liveness test inverted
insert_full_inverted(b, node, t) ==
    IF ~is_alive(b.nodes[1], node_ttl, t)
    THEN [b |-> b, ret |-> [kind |-> "Full", node |-> node]]
    ELSE LET stored == [b EXCEPT !.pending_node = Some(node)] IN
         [b |-> stored,
          ret |-> [kind |-> "Pending",
                   pending_insert |-> unwrap(stored.pending_node),
                   pending_eviction |-> pending_eviction_node(stored)]]

\* the Err arm testing the liveness of the tail (.last()) for the head
insert_full_last(b, node, t) ==
    IF is_alive(b.nodes[Len(b.nodes)], node_ttl, t)
    THEN [b |-> b, ret |-> [kind |-> "Full", node |-> node]]
    ELSE LET stored == [b EXCEPT !.pending_node = Some(node)] IN
         [b |-> stored,
          ret |-> [kind |-> "Pending",
                   pending_insert |-> unwrap(stored.pending_node),
                   pending_eviction |-> pending_eviction_node(stored)]]

\* the Err arm keeping a pending node that is already stored
insert_full_keep_first(b, node, t) ==
    IF is_alive(b.nodes[1], node_ttl, t) \/ is_some(b.pending_node)
    THEN [b |-> b, ret |-> [kind |-> "Full", node |-> node]]
    ELSE LET stored == [b EXCEPT !.pending_node = Some(node)] IN
         [b |-> stored,
          ret |-> [kind |-> "Pending",
                   pending_insert |-> unwrap(stored.pending_node),
                   pending_eviction |-> pending_eviction_node(stored)]]

\* Bucket::insert, the Err(err) arm of try_push: Full or Pending
insert_full(b, node, t) ==
    IF is_alive(b.nodes[1], node_ttl, t)
    THEN [b |-> b, ret |-> [kind |-> "Full", node |-> node]]
    ELSE LET stored == [b EXCEPT !.pending_node = Some(node)] IN
         [b |-> stored,
          ret |-> [kind |-> "Pending",
                   pending_insert |-> unwrap(stored.pending_node),
                   pending_eviction |-> pending_eviction_node(stored)]]

\* Bucket::insert: [b, ret], ret the Ok or Err value
insert(b, node, t) ==
    IF ~is_id_valid(node)
    THEN [b |-> b, ret |-> [kind |-> "Invalid", node |-> node]]
    ELSE LET r == refresh_node(b, node.id, t) IN
         IF is_some(r.ret)
         THEN LET e == try_perform_eviction(r.b, t).b IN
              [b |-> e,
               ret |-> [kind |-> "Updated",
                        pending_eviction |-> pending_eviction_node(e),
                        updated |-> e.nodes[Len(e.nodes)]]]
         ELSE LET e == try_perform_eviction(r.b, t).b
                  pushed == try_push(e.nodes, node)
              IN IF pushed.ok
                 THEN [b |-> [e EXCEPT !.nodes = pushed.nodes],
                       ret |-> [kind |-> "Inserted",
                                inserted |-> pushed.nodes[Len(pushed.nodes)]]]
                 ELSE insert_full(e, node, t)

\* ArrayVec::retain(|n| n.is_alive(ttl))
retain_alive(ns, ttl, t) == SelectSeq(ns, LAMBDA n : is_alive(n, ttl, t))

\* Bucket::remove_idle_nodes
remove_idle_nodes(b, t) ==
    insert_pending([b EXCEPT !.nodes = retain_alive(@, node_ttl, t)], t)

\* ------------------------------------------------------------- pick
Min(a, b) == IF a < b THEN a ELSE b

Range(f) == {f[x] : x \in DOMAIN f}

\* idxs.shuffle(): every order of the indices 0..len-1
shuffles(n) == {p \in [1..n -> 1..n] : \A i, j \in 1..n : i # j => p[i] # p[j]}

\* pick<ITEM_COUNT> with take(ITEM_COUNT - 1)
pick_one_less(ns, ITEM_COUNT) ==
    {[k \in 1..Min(ITEM_COUNT - 1, Len(ns)) |-> ns[p[k]]] : p \in shuffles(Len(ns))}

\* Bucket::pick<ITEM_COUNT>: every result the shuffle can give
pick(ns, ITEM_COUNT) ==
    {[k \in 1..Min(ITEM_COUNT, Len(ns)) |-> ns[p[k]]] : p \in shuffles(Len(ns))}

\* ------------------------------------------------------------- overlay
\* the ID space of L = IdBits bits
NodeIds == 0..(2^IdBits - 1)

Bit(x, i) == (x \div (2^i)) % 2

\* msb(xor(a, b)): the bucket index of b in a's routing table, a # b
bucket_index(a, b) ==
    CHOOSE i \in 0..(IdBits - 1) :
        /\ Bit(a, i) # Bit(b, i)
        /\ \A j \in (i + 1)..(IdBits - 1) : Bit(a, j) = Bit(b, j)

\* the distance band of bucket i of node n
Band(n, i) == {m \in NodeIds : m # n /\ bucket_index(n, m) = i}

RECURSIVE SetToSeq(_)
SetToSeq(S) ==
    IF S = {} THEN <<>>
    ELSE LET x == CHOOSE y \in S : \A z \in S : y <= z
         IN <<x>> \o SetToSeq(S \ {x})

\* what bucket i of node n may hold when it is read: at most K_K peers of
\* its band, a live one whenever the band has a live node, and peers that
\* are gone only when stale_records
Buckets(n, i) ==
    {b \in SUBSET Band(n, i) :
        /\ Cardinality(b) <= K_K
        /\ (Band(n, i) \cap live # {}) => (b \cap live # {})
        /\ stale_records \/ b \subseteq live}

\* the targets pick<K_BETA> may return for bucket i of node n
Targets(n, i) ==
    UNION {{Range(sel) : sel \in pick(SetToSeq(b), K_BETA)} : b \in Buckets(n, i)}

\* BroadcastPayload.height of a broadcast sent with height = None
DefaultHeight == IdBits - 1

\* with_auto_propagate(true)
auto_propagate(n) == TRUE

\* one copy of the broadcast on the wire; hops counts the senders it has
\* passed through, the source included
Datagram(t, n, i, hops) == [to |-> t, from |-> n, height |-> i, hops |-> hops]

\* a fan-out over the bucket indices 0..=h
RECURSIVE Fanouts_inclusive(_, _, _)
Fanouts_inclusive(n, h, hops) ==
    {rest \cup {Datagram(t, n, h, hops) : t \in tg \cap live} :
        rest \in (IF h = 0 THEN {{}} ELSE Fanouts_inclusive(n, h - 1, hops)),
        tg \in Targets(n, h)}

\* the fan-outs node n may make over the bucket indices below h: for each
\* index one copy per picked target, its height the bucket index; a
\* datagram to a node that is gone reaches nobody
RECURSIVE Fanouts(_, _, _)
Fanouts(n, h, hops) ==
    IF h = 0 THEN {{}}
    ELSE {rest \cup {Datagram(t, n, h - 1, hops) : t \in tg \cap live} :
             rest \in Fanouts(n, h - 1, hops), tg \in Targets(n, h - 1)}

\* a send that takes the item whatever the channel holds
try_send_unbounded(q, item) == Append(q, item)

\* Sender::try_send on the bounded inbound channel
try_send(q, item) == IF Len(q) < ChannelSize THEN Append(q, item) ELSE q

InitNet ==
    /\ live \in SUBSET NodeIds
    /\ live # {}
    /\ stale_records \in BOOLEAN
    /\ sent = None
    /\ net = {}
    /\ cache = [n \in NodeIds |-> "Empty"]
    /\ inbox = [n \in NodeIds |-> <<>>]
    /\ got = [n \in NodeIds |-> FALSE]

\* Peer::broadcast(data, None) at a live node
AppBroadcast(src) ==
    /\ sent = None
    /\ src \in live
    /\ \E ds \in Fanouts(src, DefaultHeight + 1, 1) : net' = net \cup ds
    /\ sent' = Some(src)
    /\ UNCHANGED <<live, stale_records, cache, inbox, got>>
    /\ UNCHANGED net_frame

\* WireNetwork::listen_in on the datagram that completes the payload, or a
\* later one: the decoder returns the message once, try_send may drop it
ListenInBroadcast(d) ==
    /\ d \in net
    /\ net' = net \ {d}
    /\ IF cache[d.to] = "Delivered"
       THEN UNCHANGED <<cache, inbox>>
       ELSE /\ cache' = [cache EXCEPT ![d.to] = "Delivered"]
            /\ inbox' = [inbox EXCEPT ![d.to] =
                           try_send(@, [kind |-> "Broadcast", height |-> d.height,
                                        hops |-> d.hops])]
    /\ UNCHANGED <<live, stale_records, sent, got>>
    /\ UNCHANGED net_frame

\* WireNetwork::listen_in on a Ping, Pong, FindNodes or Nodes datagram
ListenInOther(n) ==
    /\ n \in live
    /\ inbox' = [inbox EXCEPT ![n] = try_send(@, [kind |-> "Other", height |-> 0, hops |-> 0])]
    /\ UNCHANGED <<live, stale_records, sent, net, cache, got>>
    /\ UNCHANGED net_frame

\* the routing/broadcast task takes the next message off the channel: a
\* Broadcast goes to the application callback and, above height 0, is
\* forwarded over the bucket indices below its height
Handle(n) ==
    /\ n \in live
    /\ Len(inbox[n]) > 0
    /\ inbox' = [inbox EXCEPT ![n] = Tail(@)]
    /\ LET msg == Head(inbox[n]) IN
       IF msg.kind = "Broadcast"
       THEN /\ got' = [got EXCEPT ![n] = TRUE]
            /\ IF auto_propagate(n) /\ msg.height > 0
               THEN \E ds \in Fanouts(n, msg.height, msg.hops + 1) :
                       net' = net \cup ds
               ELSE UNCHANGED net
       ELSE UNCHANGED <<got, net>>
    /\ UNCHANGED <<live, stale_records, sent, cache>>
    /\ UNCHANGED net_frame

NextNet ==
    \/ \E src \in NodeIds : AppBroadcast(src)
    \/ \E d \in net : ListenInBroadcast(d)
    \/ \E n \in NodeIds : ListenInOther(n)
    \/ \E n \in NodeIds : Handle(n)

\* ------------------------------------------------------------- actions
cur == Bucket(nodes, pending_node)

Snapshot == [nodes |-> nodes, pending_node |-> pending_node, now |-> now]

InitBucket ==
    /\ nodes = Bucket_new.nodes
    /\ pending_node = Bucket_new.pending_node
    /\ now = 0
    /\ prev = [nodes |-> <<>>, pending_node |-> None, now |-> 0]
    /\ result = [op |-> "new", arg |-> None, ret |-> [kind |-> "none"]]

\* the overlay is not running while one bucket is exercised
NetIdle ==
    /\ live = {}
    /\ stale_records = FALSE
    /\ sent = None
    /\ net = {}
    /\ cache = <<>>
    /\ inbox = <<>>
    /\ got = <<>>

\* a caller inserts a node it has just created (Node::new), or one it has held
\* for node_ttl, as test_lru_base_5secs does with the node Full handed back
Insert(id, born) ==
    LET node == Node_new(id, born)
        r == insert(cur, node, now)
    IN /\ nodes' = r.b.nodes
       /\ pending_node' = r.b.pending_node
       /\ prev' = Snapshot
       /\ result' = [op |-> "insert", arg |-> Some(node), ret |-> r.ret]
       /\ UNCHANGED now
       /\ UNCHANGED bucket_frame

RemoveIdleNodes ==
    LET b == remove_idle_nodes(cur, now)
    IN /\ nodes' = b.nodes
       /\ pending_node' = b.pending_node
       /\ prev' = Snapshot
       /\ result' = [op |-> "remove_idle_nodes", arg |-> None,
                     ret |-> [kind |-> "none"]]
       /\ UNCHANGED now
       /\ UNCHANGED bucket_frame

\* time passes between two calls
Tick ==
    /\ now < MaxTime
    /\ now' = now + 1
    /\ UNCHANGED <<nodes, pending_node, prev, result>>
    /\ UNCHANGED bucket_frame

NextBucket ==
    \/ \E id \in Ids \cup {InvalidId}, born \in Instants :
          born \in {now, now - node_ttl} /\ Insert(id, born)
    \/ RemoveIdleNodes
    \/ Tick

DecIdle ==
    /\ dcache = <<>>
    /\ fed = <<>>
    /\ returned = <<>>
    /\ dresult = None

PureIdle ==
    /\ call = None
    /\ value = None

\* no receive loop is running
InIdle ==
    /\ running = FALSE
    /\ chan = <<>>
    /\ last = None

vars == <<dec_vars, pure_vars, in_vars, nodes, pending_node, now, prev, result,
          live, stale_records, sent, net, cache, inbox, got>>

Init == InitBucket /\ NetIdle /\ DecIdle /\ PureIdle /\ InIdle

Next == NextBucket

Spec == Init /\ [][Next]_vars


InitBroadcast == InitNet /\ InitBucket /\ DecIdle /\ PureIdle /\ InIdle

NextBroadcast == NextNet

\* no datagram is lost and both tasks of every node keep running
SpecBroadcast ==
    /\ InitBroadcast
    /\ [][NextBroadcast]_vars
    /\ WF_vars(\E d \in net : ListenInBroadcast(d))
    /\ \A n \in NodeIds : WF_vars(Handle(n))

\* ------------------------------------------------------------- claims
IdsOf(ns) == {ns[i].id : i \in 1..Len(ns)}

\* the last call was insert(node) with a valid node
InsertedValid == result.op = "insert" /\ is_id_valid(unwrap(result.arg))

\* the argument of the last insert
Arg == unwrap(result.arg)

\* the last call was insert of a valid node whose ID was not in nodes
InsertedNew == InsertedValid /\ Arg.id \notin IdsOf(prev.nodes)

\* the head the last call found was flagged and its eviction timeout had elapsed
PrevHeadExpired ==
    /\ Len(prev.nodes) = K_K
    /\ prev.nodes[1].eviction_status.tag = "Requested"
    /\ prev.now - prev.nodes[1].eviction_status.instant >= node_evict_after

\* C1: after any sequence of insert and remove_idle_nodes calls, with any
\* time passing between them, a bucket holds at most K records.
C1_AtMostK == Len(nodes) <= K_K

\* C1 witness: an insert found the bucket full and a pending promotion or a
\* rejection kept it at K records.
C1_Witness ==
    /\ result.op = "insert"
    /\ Len(prev.nodes) = K_K
    /\ Len(nodes) = K_K
    /\ nodes # prev.nodes

\* C2: no two records of nodes have the same ID, also after a pending node
\* is promoted into nodes.
C2_UniqueIds ==
    \A i, j \in 1..Len(nodes) : i # j => nodes[i].id # nodes[j].id

\* C3: only the record at index 0 (the head) may be flagged Requested; every
\* later record has eviction_status None.
C3_OnlyHeadFlagged ==
    \A i \in 2..Len(nodes) : nodes[i].eviction_status = EvNone

\* C3 witness: a flagged head was refreshed and moved to the tail of a
\* bucket of at least two records.
C3_Witness ==
    /\ InsertedValid
    /\ Len(prev.nodes) >= 2
    /\ prev.nodes[1].eviction_status.tag = "Requested"
    /\ Arg.id = prev.nodes[1].id
    /\ result.ret.kind = "Updated"

\* C4: the pending slot is assigned only by an insert that found nodes
\* holding K records, and nodes holds K records when it is assigned.
C4_PendingOnlyWhenFull ==
    /\ (is_some(pending_node) /\ pending_node # prev.pending_node) =>
          result.op = "insert" /\ result.ret.kind = "Pending"
    /\ (result.op = "insert" /\ result.ret.kind = "Pending") =>
          /\ Len(prev.nodes) = K_K
          /\ Len(nodes) = K_K
          /\ pending_node = result.arg

\* C4 witness: an insert has assigned the pending slot.
C4_Witness ==
    /\ result.op = "insert"
    /\ result.ret.kind = "Pending"
    /\ prev.pending_node = None
    /\ is_some(pending_node)

\* C5: insert of a node whose ID is already in nodes returns Updated, and
\* afterwards the tail of nodes has that ID and is the record reported as
\* `updated`, in every bucket state.
C5_UpdatedIsTail ==
    (InsertedValid /\ Arg.id \in IdsOf(prev.nodes)) =>
        /\ result.ret.kind = "Updated"
        /\ Len(nodes) > 0
        /\ nodes[Len(nodes)].id = Arg.id
        /\ result.ret.updated = nodes[Len(nodes)]

\* C6: insert of a valid node whose ID is not in the bucket, into a bucket
\* of fewer than K records, returns Inserted; the record is appended at the
\* tail and every previous record keeps its position and eviction status.
C6_InsertedAppends ==
    (InsertedNew /\ Len(prev.nodes) < K_K) =>
        /\ result.ret.kind = "Inserted"
        /\ result.ret.inserted = Arg
        /\ nodes = Append(prev.nodes, Arg)

\* C6 witness: a node was inserted behind a record that is already there.
C6_Witness ==
    /\ InsertedNew
    /\ Len(prev.nodes) >= 1
    /\ Len(prev.nodes) < K_K
    /\ result.ret.kind = "Inserted"

\* C7: insert of a valid node whose ID is not in the bucket, into a full
\* bucket whose head was seen within node_ttl, returns Full carrying that
\* node and leaves nodes and the pending slot unchanged.
C7_FullWhenHeadAlive ==
    (/\ InsertedNew
     /\ Len(prev.nodes) = K_K
     /\ is_alive(prev.nodes[1], node_ttl, prev.now)) =>
        /\ result.ret.kind = "Full"
        /\ result.ret.node = Arg
        /\ nodes = prev.nodes
        /\ pending_node = prev.pending_node

\* C7 witness: a full bucket with a live head has rejected a node.
C7_Witness ==
    /\ InsertedNew
    /\ Len(prev.nodes) = K_K
    /\ is_alive(prev.nodes[1], node_ttl, prev.now)
    /\ result.ret.kind = "Full"

\* the case of C8: a full bucket whose head is dead and, when flagged, not
\* yet due for eviction
C8_Case ==
    /\ InsertedNew
    /\ Len(prev.nodes) = K_K
    /\ ~is_alive(prev.nodes[1], node_ttl, prev.now)
    /\ ~PrevHeadExpired

\* C8 as stated: in that case insert returns Pending, stores exactly that
\* node in the pending slot and leaves the sequence of records in nodes
\* unchanged.
C8_PendingNodesUnchanged ==
    C8_Case =>
        /\ result.ret.kind = "Pending"
        /\ pending_node = Some(Arg)
        /\ nodes = prev.nodes

\* C8 amended: in that case insert returns Pending and stores exactly that
\* node in the pending slot; nodes keeps the same records in the same
\* order, except that a head not yet flagged becomes Requested(now).
C8_PendingFlagsHead ==
    C8_Case =>
        /\ result.ret.kind = "Pending"
        /\ result.ret.pending_insert = Arg
        /\ pending_node = Some(Arg)
        /\ nodes = [prev.nodes EXCEPT ![1] =
                      IF @.eviction_status = EvNone
                      THEN flag_for_check(@, prev.now) ELSE @]

\* C8 witness: the head was not flagged when the insert came, and is now.
C8_Witness ==
    /\ C8_Case
    /\ prev.nodes[1].eviction_status = EvNone
    /\ result.ret.kind = "Pending"
    /\ nodes[1].eviction_status.tag = "Requested"

\* C9 as stated: when the flagged head's node_evict_after has elapsed, the
\* next insert of a node whose ID is not in nodes removes the head and
\* returns Inserted for the new node.
C9_EvictThenInserted ==
    (InsertedNew /\ PrevHeadExpired) =>
        /\ SubSeq(nodes, 1, K_K - 1) = Tail(prev.nodes)
        /\ result.ret.kind = "Inserted"

\* the pending node the last call found was alive
PrevPendingAlive ==
    /\ is_some(prev.pending_node)
    /\ is_alive(unwrap(prev.pending_node), node_ttl, prev.now)

\* C9 amended: that insert removes the head; it returns Inserted with the
\* new node at the tail when the pending slot is empty or holds a node not
\* seen within node_ttl; otherwise the pending node takes the tail, the
\* bucket is full again and the new node is answered Full or Pending.
C9_EvictThenInsertedOrPromoted ==
    (InsertedNew /\ PrevHeadExpired) =>
        /\ SubSeq(nodes, 1, K_K - 1) = Tail(prev.nodes)
        /\ Len(nodes) = K_K
        /\ IF PrevPendingAlive
           THEN /\ nodes[K_K] = unwrap(prev.pending_node)
                /\ result.ret.kind \in {"Full", "Pending"}
           ELSE /\ nodes[K_K] = Arg
                /\ result.ret.kind = "Inserted"
                /\ pending_node = None

\* C9 witness: the head was evicted on timeout and the new node inserted.
C9_Witness ==
    /\ InsertedNew
    /\ PrevHeadExpired
    /\ result.ret.kind = "Inserted"
    /\ nodes[K_K] = Arg

\* the node whose application called broadcast
Source == unwrap(sent)

\* every live node other than the source has had its callback fired
AllGot == is_some(sent) /\ \A n \in live \ {Source} : got[n]

\* node n reassembled the payload and try_send found the channel full: the
\* message is gone and the decoder will not return it again
Dropped(n) ==
    /\ cache[n] = "Delivered"
    /\ ~got[n]
    /\ \A k \in 1..Len(inbox[n]) : inbox[n][k].kind # "Broadcast"

Quiet ==
    /\ net = {}
    /\ \A n \in NodeIds : \A k \in 1..Len(inbox[n]) : inbox[n][k].kind # "Broadcast"

\* a step in which node n takes a Broadcast of height h off its channel
\* puts on the wire only copies of its own with a height below h
HeightDecreases ==
    \A n \in NodeIds :
        (/\ Len(inbox[n]) > 0
         /\ inbox'[n] = Tail(inbox[n])
         /\ Head(inbox[n]).kind = "Broadcast") =>
            LET h == Head(inbox[n]).height IN
            /\ h = 0 => net' = net
            /\ \A d \in net' \ net : d.from = n /\ d.height < h

\* no copy has passed through more than L senders
HopsBounded ==
    /\ \A d \in net : d.hops <= IdBits
    /\ \A n \in NodeIds : \A k \in 1..Len(inbox[n]) : inbox[n][k].hops <= IdBits

\* C11: a Broadcast received at height 0 is not forwarded, a copy forwarded
\* on receipt at height h > 0 has a height below h, no forwarding chain is
\* longer than L hops, and the fan-out of a broadcast comes to an end.
C11_FanoutTerminates ==
    /\ [][HeightDecreases]_vars
    /\ []HopsBounded
    /\ <>[]Quiet

\* C11 witness: a copy forwarded at the end of a chain of L hops is on the
\* wire, at height 0
C11_Witness == \E d \in net : d.hops = IdBits /\ d.height = 0 /\ d.from # Source

\* ------------------------------------------------------------- FEC chunking
Payloads == 1..NumPayloads

Mtus == 1..NumMtus

\* BroadcastPayload::generate_uid: BLAKE2s of the payload, a digest being
\* identified with the bytes it was computed from
generate_uid(P) == P

\* encoder.get_config().serialize(): the transmission info the fountain
\* encoder derives from the payload and the MTU
transmission_info(P, mtu) == mtu

\* repair packets of one encoding; the share len * fec_redundancy / mtu of a
\* payload of a few symbols truncates to 0
repair_packets ==
    LET share == 0
    IN IF share < min_repair_packets_per_block
       THEN min_repair_packets_per_block ELSE share

\* encoding symbol IDs: the source symbols first, then the repair symbols
SourceSyms == 1..SourceSymbols
Syms == 1..(SourceSymbols + repair_packets)

\* RaptorQEncoder::encode of Broadcast(header, {height, gossip_frame = P}):
\* one Broadcast per encoded packet, gossip_frame = uid || info || packet
encode(P, mtu, height) ==
    {[uid |-> generate_uid(P), info |-> transmission_info(P, mtu),
      esi |-> e, height |-> height] : e \in Syms}

\* every chunk senders with any of the MTUs may put on the wire
Chunks == UNION {encode(P, mtu, h) : P \in Payloads, mtu \in Mtus, h \in 0..DefaultHeight}

\* ChunkedPayload::safe_uid: BLAKE2s(uid || transmission_info)
safe_uid(c) == <<c.uid, c.info>>

Keys == {safe_uid(c) : c \in Chunks}

Absent == [state |-> "Absent", syms |-> {}]
Delivered == [state |-> "Delivered", syms |-> {}]
Receiving(syms) == [state |-> "Receiving", syms |-> syms]

\* a decoder that yields as soon as one symbol is in
yields_at_once(syms) == {TRUE}

\* whether the fountain decoder holding `syms` yields the payload: never
\* below the source-symbol count, always with every source symbol (the
\* code is systematic), and otherwise as the linear system works out
yields(syms) ==
    IF SourceSyms \subseteq syms THEN {TRUE}
    ELSE IF Cardinality(syms) >= SourceSymbols THEN {TRUE, FALSE}
    ELSE {FALSE}

TotalFed == LET RECURSIVE Sum(_)
                Sum(S) == IF S = {} THEN 0
                          ELSE LET k == CHOOSE x \in S : TRUE
                               IN Cardinality(fed[k]) + Sum(S \ {k})
            IN Sum(Keys)

\* a fresh decoder
InitDecoder ==
    /\ dcache = [k \in Keys |-> Absent]
    /\ fed = [k \in Keys |-> {}]
    /\ returned = [P \in Payloads |-> 0]
    /\ dresult = None

\* RaptorQDecoder::decode of one Broadcast chunk
Decode(c) ==
    LET key == safe_uid(c) IN
    /\ c.esi \in fed[key] \/ TotalFed < MaxFeeds
    /\ fed' = [fed EXCEPT ![key] = @ \cup {c.esi}]
    /\ IF dcache[key].state = "Delivered"
       THEN /\ dresult' = None
            /\ UNCHANGED <<dcache, returned>>
       ELSE LET syms == dcache[key].syms \cup {c.esi} IN
            \E done \in yields(syms) :
               IF done
               THEN /\ dcache' = [dcache EXCEPT ![key] = Delivered]
                    /\ returned' = [returned EXCEPT ![c.uid] = @ + 1]
                    /\ dresult' = Some([gossip_frame |-> c.uid, height |-> c.height])
               ELSE /\ dcache' = [dcache EXCEPT ![key] = Receiving(syms)]
                    /\ dresult' = None
                    /\ UNCHANGED returned
    /\ UNCHANGED dec_frame

NextDecoder == \E c \in Chunks : Decode(c)

InitFec == InitDecoder /\ InitBucket /\ NetIdle /\ PureIdle /\ InIdle

SpecDecoder == InitFec /\ [][NextDecoder]_vars

\* C12: for one payload UID the decoder returns a reconstructed Broadcast
\* at most once, whatever chunks arrive and whatever their senders, heights
\* and transmission-info blocks.
C12_OncePerUid == \A P \in Payloads : returned[P] <= 1

\* the decoder has returned the payload of this safe_uid
HasReturned(k) == dcache[k].state = "Delivered"

\* a step of decode on a safe_uid already delivered returns None and
\* leaves the cache as it is; the count of returns of a payload goes up by
\* one, and only in the step that delivers one of its entries
ReturnsOnce ==
    /\ \A k \in Keys :
          HasReturned(k) =>
             /\ HasReturned(k)'
             /\ fed'[k] # fed[k] => dresult' = None /\ dcache' = dcache
    /\ \A P \in Payloads :
          \/ returned'[P] = returned[P]
          \/ /\ returned'[P] = returned[P] + 1
             /\ is_some(dresult') /\ unwrap(dresult').gossip_frame = P
             /\ \E k \in Keys : k[1] = generate_uid(P) /\ ~HasReturned(k) /\ HasReturned(k)'

U8 == 256
U16 == 65536

\* u16::to_le_bytes, u16::from_le_bytes
to_le_bytes(x) == <<x % U8, (x \div U8) % U8>>
from_le_bytes(b) == b[1] + U8 * b[2]

\* a failed read or parse
Err == [ok |-> FALSE]

\* Read::read_exact of n bytes from the rest r of the input
read_exact(r, n) ==
    IF Len(r) >= n
    THEN [ok |-> TRUE, buf |-> SubSeq(r, 1, n), rest |-> SubSeq(r, n + 1, Len(r))]
    ELSE Err

RECURSIVE WeightedSum(_, _, _)
WeightedSum(bytes, i, j) ==
    IF j > Len(bytes) THEN 0
    ELSE (i + j) * bytes[j] + WeightedSum(bytes, i, j + 1)

\* the digest of a byte string, standing for BLAKE2s: a function of the
\* bytes and their positions that has no collision on the inputs drawn
Blake2s(bytes) ==
    [i \in 1..(2 * K_ID_LEN_BYTES) |-> (Len(bytes) + WeightedSum(bytes, i, 1)) % U8]

\* ------------------------------------------------------------- peer.rs
\* IpAddr::V4 / IpAddr::V6 with their octets
V4(o) == [v |-> "V4", octets |-> o]
V6(o) == [v |-> "V6", octets |-> o]

\* a digest of the IP alone
compute_id_unported(ip, port) ==
    SubSeq(Blake2s(ip.octets), 1, K_ID_LEN_BYTES)

\* PeerNode::compute_id
compute_id(ip, port) ==
    SubSeq(Blake2s(to_le_bytes(port) \o ip.octets), 1, K_ID_LEN_BYTES)

\* a verification that accepts every header
verify_header_any(header, ip) == TRUE

\* PeerNode::verify_header
verify_header(header, ip) ==
    header.binary_id = compute_id(ip, header.sender_port)

\* PeerNode::generate(address).as_header()
as_header(ip, port) ==
    [binary_id |-> compute_id(ip, port), sender_port |-> port, reserved |-> <<0, 0>>]

\* PeerNode::generate(address).as_peer_info()
as_peer_info(ip, port) ==
    [ip |-> IF ip.v = "V4" THEN [tag |-> "IPv4", bytes |-> ip.octets]
            ELSE [tag |-> "IPv6", bytes |-> ip.octets],
     port |-> port,
     id |-> compute_id(ip, port)]

\* ------------------------------------------------------------- nodes.rs
\* PeerEncodedInfo::marshal_binary
marshal_peer(peer) ==
    (IF peer.ip.tag = "IPv6" THEN <<0>> \o peer.ip.bytes ELSE peer.ip.bytes)
        \o to_le_bytes(peer.port) \o peer.id

\* PeerEncodedInfo::unmarshal_binary, from the IP on
unmarshal_peer_tail(ip, r) ==
    LET port == read_exact(r, 2) IN
    IF ~port.ok THEN Err
    ELSE LET id == read_exact(port.rest, K_ID_LEN_BYTES) IN
         IF ~id.ok THEN Err
         ELSE [ok |-> TRUE,
               val |-> [ip |-> ip, port |-> from_le_bytes(port.buf), id |-> id.buf],
               rest |-> id.rest]

\* PeerEncodedInfo::unmarshal_binary
unmarshal_peer(r) ==
    LET ipv4 == read_exact(r, 4) IN
    IF ~ipv4.ok THEN Err
    ELSE IF ipv4.buf[1] # 0
         THEN unmarshal_peer_tail([tag |-> "IPv4", bytes |-> ipv4.buf], ipv4.rest)
         ELSE LET ipv6 == read_exact(ipv4.rest, 13) IN
              IF ~ipv6.ok THEN Err
              ELSE unmarshal_peer_tail(
                       [tag |-> "IPv6", bytes |-> Tail(ipv4.buf) \o ipv6.buf],
                       ipv6.rest)

RECURSIVE marshal_peers(_)
marshal_peers(peers) ==
    IF peers = <<>> THEN <<>>
    ELSE marshal_peer(Head(peers)) \o marshal_peers(Tail(peers))

\* NodePayload::marshal_binary
marshal_nodes(np) ==
    LET len == Len(np.peers) % U16 IN
    IF len = 0 THEN <<>>
    ELSE to_le_bytes(len) \o marshal_peers(np.peers)

\* the loop of NodePayload::unmarshal_binary
RECURSIVE unmarshal_peers(_, _, _)
unmarshal_peers(r, len, peers) ==
    IF len = 0 THEN [ok |-> TRUE, val |-> [peers |-> peers], rest |-> r]
    ELSE LET peer == unmarshal_peer(r) IN
         IF ~peer.ok THEN Err
         ELSE unmarshal_peers(peer.rest, len - 1, Append(peers, peer.val))

\* NodePayload::unmarshal_binary
unmarshal_nodes(r) ==
    LET len == read_exact(r, 2) IN
    IF ~len.ok THEN Err
    ELSE unmarshal_peers(len.rest, from_le_bytes(len.buf), <<>>)

\* ------------------------------------------------------------- message
KindOf == [Ping |-> 0, Pong |-> 1, FindNodes |-> 2, Nodes |-> 3, Broadcast |-> 4]

\* Header: id || sender_port (u16 LE) || reserved[2]
marshal_header(h) == h.binary_id \o to_le_bytes(h.sender_port) \o h.reserved

unmarshal_header(r) ==
    LET id == read_exact(r, K_ID_LEN_BYTES) IN
    IF ~id.ok THEN Err
    ELSE LET port == read_exact(id.rest, 2) IN
         IF ~port.ok THEN Err
         ELSE LET reserved == read_exact(port.rest, 2) IN
              IF ~reserved.ok THEN Err
              ELSE [ok |-> TRUE,
                    val |-> [binary_id |-> id.buf,
                             sender_port |-> from_le_bytes(port.buf),
                             reserved |-> reserved.buf],
                    rest |-> reserved.rest]

\* BroadcastPayload: height (u8), then gossip_frame to the end
marshal_broadcast(bp) == <<bp.height>> \o bp.gossip_frame

unmarshal_broadcast(r) ==
    LET height == read_exact(r, 1) IN
    IF ~height.ok THEN Err
    ELSE [ok |-> TRUE,
          val |-> [height |-> height.buf[1], gossip_frame |-> height.rest],
          rest |-> <<>>]

\* Message::marshal_binary: kind, header, payload
marshal_message(m) ==
    <<KindOf[m.kind]>> \o marshal_header(m.header) \o
    (CASE m.kind \in {"Ping", "Pong"} -> <<>>
       [] m.kind \in {"FindNodes", "Nodes"} -> marshal_nodes(m.payload)
       [] m.kind = "Broadcast" -> marshal_broadcast(m.payload))

\* Message::unmarshal_binary
unmarshal_message(r) ==
    LET kind == read_exact(r, 1) IN
    IF ~kind.ok THEN Err
    ELSE LET h == unmarshal_header(kind.rest) IN
         IF ~h.ok THEN Err
         ELSE LET k == kind.buf[1]
                  with(name, pl) ==
                      IF ~pl.ok THEN Err
                      ELSE [ok |-> TRUE,
                            val |-> [kind |-> name, header |-> h.val, payload |-> pl.val]]
              IN CASE k = 0 -> with("Ping", [ok |-> TRUE, val |-> None])
                   [] k = 1 -> with("Pong", [ok |-> TRUE, val |-> None])
                   [] k = 2 -> with("FindNodes", unmarshal_nodes(h.rest))
                   [] k = 3 -> with("Nodes", unmarshal_nodes(h.rest))
                   [] k = 4 -> with("Broadcast", unmarshal_broadcast(h.rest))
                   [] OTHER -> Err

\* ------------------------------------------------------------- inputs
Octets == 0..MaxOctet

Ipv4s == {V4(<<a, 168, 0, b>>) : a, b \in Octets}

Ipv6s == {V6([i \in 1..16 |-> IF i = 1 THEN a ELSE IF i = 16 THEN b ELSE 0]) :
             a, b \in Octets}

IpAddrs == Ipv4s \cup Ipv6s

Ports == {333, 666}

\* the senders of the messages: 192.168.0.1 on either port
Headers == {as_header(V4(<<192, 168, 0, 1>>), port) : port \in Ports}

PeerInfos == {as_peer_info(ip, port) : ip \in IpAddrs, port \in Ports}

NodePayloads ==
    UNION {{[peers |-> ps] : ps \in [1..n -> PeerInfos]} : n \in 0..MaxPeers}

BroadcastPayloads ==
    UNION {{[height |-> h, gossip_frame |-> f] : h \in {0, 10, 255}, f \in [1..n -> Octets]} :
              n \in 0..MaxFrame}

Messages ==
    {[kind |-> k, header |-> h, payload |-> None] : k \in {"Ping", "Pong"}, h \in Headers}
    \cup {[kind |-> k, header |-> h, payload |-> np] :
             k \in {"FindNodes", "Nodes"}, h \in Headers, np \in NodePayloads}
    \cup {[kind |-> "Broadcast", header |-> h, payload |-> bp] :
             h \in Headers, bp \in BroadcastPayloads}

\* ------------------------------------------------------------- codec calls
\* each behaviour makes one call, on any of the inputs
\* test_kadkast_marshal: marshal a message, unmarshal the bytes written
MarshalMessage(m) ==
    LET bytes == marshal_message(m) IN
    /\ call = None
    /\ call' = Some([fn |-> "Message", arg |-> m, bytes |-> bytes])
    /\ value' = unmarshal_message(bytes)
    /\ UNCHANGED pure_frame

\* the same on a NodePayload alone
MarshalNodes(np) ==
    LET bytes == marshal_nodes(np) IN
    /\ call = None
    /\ call' = Some([fn |-> "NodePayload", arg |-> np, bytes |-> bytes])
    /\ value' = unmarshal_nodes(bytes)
    /\ UNCHANGED pure_frame

\* test_verify_header: the header of a peer generated from ip0:port0, its
\* sender_port as sent or replaced, verified against an IP
VerifyHeader(ip0, port0, sender_port, ip) ==
    LET header == [as_header(ip0, port0) EXCEPT !.sender_port = sender_port] IN
    /\ call = None
    /\ call' = Some([fn |-> "verify_header", from |-> <<ip0, port0>>,
                     header |-> header, ip |-> ip])
    /\ value' = verify_header(header, ip)
    /\ UNCHANGED pure_frame

NextCodec ==
    \/ \E m \in Messages : MarshalMessage(m)
    \/ \E np \in NodePayloads : MarshalNodes(np)
    \/ \E ip0 \in IpAddrs, port0 \in Ports, sender_port \in Ports, ip \in IpAddrs :
          VerifyHeader(ip0, port0, sender_port, ip)

InitCodec == PureIdle /\ InitBucket /\ NetIdle /\ DecIdle /\ InIdle

SpecCodec == InitCodec /\ [][NextCodec]_vars

\* the last call was a round trip of `what`
Called(what) == is_some(call) /\ unwrap(call).fn = what

\* C14: unmarshalling the bytes produced by marshalling a message of any
\* of the five variants succeeds and yields a message equal to the one
\* marshalled.
C14_MessageRoundTrip ==
    Called("Message") => value.ok /\ value.val = unwrap(call).arg

\* C15: unmarshalling exactly the bytes written by marshalling a Nodes
\* payload with zero peers succeeds and yields a payload with zero peers.
C15_EmptyNodesRoundTrip ==
    (Called("NodePayload") /\ unwrap(call).arg.peers = <<>>) =>
        value.ok /\ value.val.peers = <<>>

\* C16: verify_header is true exactly when the header's ID is that of
\* (ip, sender_port): a header built from an address verifies against the
\* IP of that address, and fails against any other IP and with any other
\* sender_port.
C16_VerifyHeader ==
    Called("verify_header") =>
        LET c == unwrap(call) IN
        /\ value = (c.header.binary_id = compute_id(c.ip, c.header.sender_port))
        /\ value = (c.ip = c.from[1] /\ c.header.sender_port = c.from[2])

\* C16 witness: both cases of the test, a header verified against its own
\* IP and one verified against another IP on the same port
C16_Witness ==
    /\ Called("verify_header")
    /\ unwrap(call).ip # unwrap(call).from[1]
    /\ unwrap(call).header.sender_port = unwrap(call).from[2]
    /\ value = FALSE

\* ------------------------------------------------------------- pick calls
\* Bucket::pick::<K_BETA>() on the bucket as the calls so far have left it
Pick ==
    /\ \E sel \in pick(nodes, K_BETA) :
          result' = [op |-> "pick", arg |-> None,
                     ret |-> [kind |-> "picked", picked |-> sel]]
    /\ prev' = Snapshot
    /\ UNCHANGED <<nodes, pending_node, now>>
    /\ UNCHANGED bucket_frame

NextPick ==
    \/ \E id \in Ids : Insert(id, now)
    \/ RemoveIdleNodes
    \/ Tick
    \/ Pick

SpecPick == Init /\ [][NextPick]_vars

\* the records `sel` are taken from pairwise different places of `ns`
DistinctMembers(sel, ns) ==
    \E idx \in [1..Len(sel) -> 1..Len(ns)] :
        /\ \A i, j \in 1..Len(sel) : i # j => idx[i] # idx[j]
        /\ \A i \in 1..Len(sel) : sel[i] = ns[idx[i]]

ManyIds == 1..(K_K + 2)

\* inserts of nodes just created, from the larger set of IDs
NextMany ==
    \/ \E id \in ManyIds : Insert(id, now)
    \/ RemoveIdleNodes
    \/ Tick

SpecMany == Init /\ [][NextMany]_vars

\* the case of C18: a full bucket with a pending node is offered a node
\* that is neither in nodes nor the pending one
C18_Case ==
    /\ InsertedNew
    /\ Len(prev.nodes) = K_K
    /\ is_some(prev.pending_node)
    /\ Arg.id # unwrap(prev.pending_node).id

\* C18 as stated: in that case insert returns Full and the stored pending
\* node stays as it is.
C18_FirstPendingKept ==
    C18_Case =>
        /\ result.ret.kind = "Full"
        /\ pending_node = prev.pending_node

\* C18 amended: in that case, with a head seen within node_ttl, insert
\* returns Full and the bucket and its pending node stay as they are; with
\* a head not seen within node_ttl and not yet due for eviction, the new
\* node replaces the stored pending node and insert returns Pending.
C18_PendingKeptWhileHeadAlive ==
    C18_Case =>
        IF is_alive(prev.nodes[1], node_ttl, prev.now)
        THEN /\ result.ret.kind = "Full"
             /\ nodes = prev.nodes
             /\ pending_node = prev.pending_node
        ELSE PrevHeadExpired \/
             /\ result.ret.kind = "Pending"
             /\ pending_node = Some(Arg)

\* C18 witness: the head was refreshed out of the way after the pending
\* node was stored, the new head is alive, and a further node got Full
C18_Witness ==
    /\ C18_Case
    /\ is_alive(prev.nodes[1], node_ttl, prev.now)
    /\ result.ret.kind = "Full"
    /\ pending_node = prev.pending_node

\* C19: whenever insert returns Pending, the head of the bucket is flagged
\* Requested after the call and is the node reported in pending_eviction.
C19_PendingReportsFlaggedHead ==
    (InsertedValid /\ result.ret.kind = "Pending") =>
        /\ nodes[1].eviction_status.tag = "Requested"
        /\ result.ret.pending_eviction = Some(nodes[1])

\* the places of the records the last call found in nodes and whose ID is
\* no longer there
Removed == {i \in 1..Len(prev.nodes) : prev.nodes[i].id \notin IdsOf(nodes)}

\* C20: insert removes a record from nodes only if it is the head, it is
\* flagged Requested(t) and node_evict_after or more has elapsed since t;
\* a flagged head is not dropped earlier and no other record is dropped.
C20_OnlyExpiredHeadRemoved ==
    result.op = "insert" =>
        /\ Removed \subseteq {1}
        /\ Removed # {} => PrevHeadExpired
        /\ Len(nodes) >= Len(prev.nodes) - 1
        /\ Len(nodes) < Len(prev.nodes) => PrevHeadExpired

\* C20 witness: an insert has dropped the flagged head after its timeout
C20_Witness ==
    /\ result.op = "insert"
    /\ Removed = {1}
    /\ PrevHeadExpired

\* ------------------------------------------------------------- refresh
\* the last call was insert with the ID of the head it found
RefreshedHead ==
    /\ InsertedValid
    /\ Len(prev.nodes) > 0
    /\ Arg.id = prev.nodes[1].id

\* the head the last call found was flagged and its timeout had not elapsed
PrevHeadRequestedInTime ==
    /\ Len(prev.nodes) > 0
    /\ prev.nodes[1].eviction_status.tag = "Requested"
    /\ prev.now - prev.nodes[1].eviction_status.instant < node_evict_after

\* C21: a flagged head refreshed (insert with its ID) before
\* node_evict_after has elapsed since the flag gets eviction_status None,
\* moves to the tail and is not dropped, every other record staying; an
\* insert drops the head only when it is not a refresh of the head, the
\* timeout has elapsed and the head was not seen since it was flagged.
C21_RefreshCancelsEviction ==
    /\ (RefreshedHead /\ PrevHeadRequestedInTime) =>
          /\ result.ret.kind = "Updated"
          /\ Len(nodes) = Len(prev.nodes)
          /\ nodes[Len(nodes)] = refresh(prev.nodes[1], prev.now)
          /\ nodes[Len(nodes)].eviction_status = EvNone
          /\ \A i \in 1..(Len(nodes) - 1) : nodes[i].id = prev.nodes[i + 1].id
    /\ (result.op = "insert" /\ Removed = {1}) =>
          /\ ~RefreshedHead
          /\ PrevHeadExpired
          /\ prev.nodes[1].seen_at < prev.nodes[1].eviction_status.instant

\* C21 witness: the head of a full bucket, flagged by an insert that was
\* answered Pending, has been refreshed in time and is the unflagged tail
C21_Witness ==
    /\ RefreshedHead
    /\ PrevHeadRequestedInTime
    /\ Len(prev.nodes) = K_K
    /\ is_some(prev.pending_node)
    /\ result.ret.kind = "Updated"
    /\ nodes[Len(nodes)].id = Arg.id
    /\ nodes[Len(nodes)].eviction_status = EvNone

\* the bucket the last call found
PrevBucket == Bucket(prev.nodes, prev.pending_node)

\* the last call was insert with an ID that was in nodes: it ran
\* refresh_node on that ID and try_perform_eviction on what it left
RefreshedSome == InsertedValid /\ Arg.id \in IdsOf(prev.nodes)

evicts(b, t) ==
    /\ is_full(b.nodes)
    /\ Len(b.nodes) > 0
    /\ b.nodes[1].eviction_status.tag = "Requested"
    /\ ~(t - b.nodes[1].eviction_status.instant < node_evict_after)

\* insert_pending reaches nodes.push(pending)
pushes_pending(b, t) ==
    /\ ~is_full(b.nodes)
    /\ is_some(b.pending_node)
    /\ is_alive(unwrap(b.pending_node), node_ttl, t)

\* insert(node) promotes the pending node: after refresh_node, the head is
\* evicted and insert_pending pushes
insert_promotes(b, node, t) ==
    /\ is_id_valid(node)
    /\ LET r == refresh_node(b, node.id, t).b
       IN evicts(r, t) /\ pushes_pending([r EXCEPT !.nodes = Tail(@)], t)

\* insert of a node created at the call, in a run of the bucket in which
\* no call promotes the pending node
InsertUnpromoted(id) ==
    /\ ~insert_promotes(cur, Node_new(id, now), now)
    /\ Insert(id, now)

NextUnpromoted ==
    \/ \E id \in ManyIds : InsertUnpromoted(id)
    \/ Tick

SpecUnpromoted == Init /\ [][NextUnpromoted]_vars

\* C23: in every bucket state reached by insert calls of which none has
\* promoted a pending node, each new node inserted with seen_at equal to
\* its insertion time, nodes is ordered by non-decreasing seen_at from the
\* head (least recently seen) to the tail (most recently seen).
C23_SeenAtOrdered ==
    \A i, j \in 1..Len(nodes) : i < j => nodes[i].seen_at <= nodes[j].seen_at

\* C23 witness: a full bucket of records seen at different times, after a
\* head was evicted, a node inserted in its place and a record refreshed
C23_Witness ==
    /\ result.op = "insert"
    /\ result.ret.kind = "Updated"
    /\ Len(nodes) = K_K
    /\ \A i \in 1..(Len(nodes) - 1) : nodes[i].seen_at < nodes[i + 1].seen_at
    /\ \E i \in 1..Len(nodes) : nodes[i].id > K_K
    /\ 1 \notin IdsOf(nodes)

\* ------------------------------------------------------------- idle nodes
\* the records the last call found in nodes that were seen within node_ttl
PrevSeenWithinTtl ==
    SelectSeq(prev.nodes, LAMBDA n : prev.now - n.seen_at < node_ttl)

\* the last call found records in nodes that were not seen within node_ttl
PrevHadIdle == Len(PrevSeenWithinTtl) < Len(prev.nodes)

\* C24: after remove_idle_nodes, nodes holds exactly the records stored
\* before that were seen within node_ttl, in their previous order, followed
\* by the former pending node if and only if there was one, it was seen
\* within node_ttl and at least one record was removed; every record of
\* nodes is alive, and the pending slot is empty unless no record was
\* removed.
C24_RemoveIdleNodes ==
    result.op = "remove_idle_nodes" =>
        /\ nodes = IF PrevPendingAlive /\ PrevHadIdle
                   THEN Append(PrevSeenWithinTtl, unwrap(prev.pending_node))
                   ELSE PrevSeenWithinTtl
        /\ \A i \in 1..Len(nodes) : is_alive(nodes[i], node_ttl, prev.now)
        /\ PrevHadIdle => pending_node = None

\* C24 witness: remove_idle_nodes dropped a record, kept another and put
\* the pending node behind it
C24_Witness ==
    /\ result.op = "remove_idle_nodes"
    /\ PrevHadIdle
    /\ PrevPendingAlive
    /\ Len(PrevSeenWithinTtl) > 0
    /\ Len(nodes) = Len(PrevSeenWithinTtl) + 1
    /\ nodes[Len(nodes)] = unwrap(prev.pending_node)
    /\ pending_node = None

\* ------------------------------------------------------------- pending slot
\* the last call was an insert whose try_perform_eviction dropped the head
EvictedHead ==
    /\ InsertedValid
    /\ evicts(refresh_node(PrevBucket, Arg.id, prev.now).b, prev.now)

\* C25: whenever the pending slot is occupied, nodes holds exactly K
\* records. A call that removes a record from nodes takes the pending node
\* out of its slot, promoting it to the tail if it is alive and discarding
\* it otherwise: after remove_idle_nodes the slot is empty, after the head
\* eviction of an insert it is empty until that insert, finding the bucket
\* full again, stores its own node.
C25_PendingImpliesFull ==
    /\ is_some(pending_node) => Len(nodes) = K_K
    /\ (result.op = "remove_idle_nodes" /\ PrevHadIdle) => pending_node = None
    /\ EvictedHead =>
          LET r == refresh_node(PrevBucket, Arg.id, prev.now).b
              e == try_perform_eviction(r, prev.now).b
          IN /\ Len(r.nodes) = K_K
             /\ e.pending_node = None
             /\ e.nodes = IF PrevPendingAlive
                          THEN Append(Tail(r.nodes), unwrap(prev.pending_node))
                          ELSE Tail(r.nodes)
             /\ \/ pending_node = None /\ nodes \in {e.nodes, Append(e.nodes, Arg)}
                \/ /\ result.ret.kind = "Pending"
                   /\ pending_node = Some(Arg)
                   /\ nodes = e.nodes

\* C25 witness: an insert dropped the head while a pending node that was
\* no longer alive was stored; the node is discarded and the slot is empty
C25_Witness ==
    /\ EvictedHead
    /\ is_some(prev.pending_node)
    /\ ~PrevPendingAlive
    /\ pending_node = None
    /\ unwrap(prev.pending_node).id \notin IdsOf(nodes)

\* ------------------------------------------------------------- fan-out calls
\* the heights an application may broadcast with (Some(H), or None for L - 1)
Heights == 0..DefaultHeight

\* Peer::broadcast(data, Some(H)) at a live node: a fan-out over the bucket
\* indices 0..=H; the call and the copies it emits are recorded
BroadcastAt(src, H) ==
    /\ sent = None
    /\ src \in live
    /\ \E ds \in Fanouts(src, H + 1, 1) :
          /\ net' = net \cup ds
          /\ value' = ds
    /\ call' = Some([fn |-> "broadcast", node |-> src, height |-> H])
    /\ sent' = Some(src)
    /\ UNCHANGED <<live, stale_records, cache, inbox, got>>
    /\ UNCHANGED fanout_frame

\* the routing/broadcast task of node n takes a Broadcast off the channel,
\* as in Handle; the call and the copies it emits are recorded. A run goes
\* as far as the first receiver that handles a copy of the source
Forward(n) ==
    /\ n \in live
    /\ Len(inbox[n]) > 0
    /\ Head(inbox[n]).kind = "Broadcast"
    /\ unwrap(call).fn = "broadcast"
    /\ inbox' = [inbox EXCEPT ![n] = Tail(@)]
    /\ got' = [got EXCEPT ![n] = TRUE]
    /\ LET msg == Head(inbox[n]) IN
       /\ call' = Some([fn |-> "forward", node |-> n, height |-> msg.height])
       /\ IF auto_propagate(n) /\ msg.height > 0
          THEN \E ds \in Fanouts(n, msg.height, msg.hops + 1) :
                  /\ net' = net \cup ds
                  /\ value' = ds
          ELSE /\ UNCHANGED net
               /\ value' = {}
    /\ UNCHANGED <<live, stale_records, sent, cache>>
    /\ UNCHANGED fanout_frame

NextFanout ==
    \/ \E src \in NodeIds, H \in Heights : BroadcastAt(src, H)
    \/ \E d \in net : ListenInBroadcast(d)
    \/ \E n \in NodeIds : Forward(n)

SpecFanout == InitBroadcast /\ [][NextFanout]_vars

\* the copies `ds` are a fan-out of node n over the bucket indices below
\* `top`: each copy is from n to a peer of the bucket of its height, a
\* height below `top`, and no bucket gets more than K_BETA copies
FanoutBelow(ds, n, top) ==
    /\ \A d \in ds :
          /\ d.from = n
          /\ d.height \in 0..(top - 1)
          /\ d.to # n
          /\ bucket_index(n, d.to) = d.height
    /\ \A i \in 0..(top - 1) :
          Cardinality({d.to : d \in {e \in ds : e.height = i}}) <= K_BETA

\* C26: an application broadcast with height H emits, for each bucket index
\* i in 0..=H, copies to at most K_BETA distinct peers of bucket i, each
\* carrying height = i, and none for a bucket index above H; a broadcast
\* received at height h is forwarded the same way over the indices 0..h-1
\* only.
C26_FanoutHeights ==
    is_some(call) =>
        LET c == unwrap(call) IN
        /\ c.fn = "broadcast" => FanoutBelow(value, c.node, c.height + 1)
        /\ c.fn = "forward" => FanoutBelow(value, c.node, c.height)

\* C26 witness: a broadcast put a copy above height 0 on the wire, and
\* its receiver forwarded it into every bucket below the height it came
\* with
C26_Witness ==
    /\ is_some(call)
    /\ unwrap(call).fn = "forward"
    /\ unwrap(call).height > 0
    /\ value # {}
    /\ \A i \in 0..(unwrap(call).height - 1) : \E d \in value : d.height = i

\* ------------------------------------------------------------- listen_in
\* crate::MAX_DATAGRAM_SIZE, scaled down
MAX_DATAGRAM_SIZE == 12

\* let mut bytes = [0; MAX_DATAGRAM_SIZE]; socket.recv_from(&mut bytes): the
\* datagram at the front of a zeroed buffer, cut at the size of the buffer
recv_buffer(wire) ==
    [i \in 1..MAX_DATAGRAM_SIZE |-> IF i <= Len(wire) THEN wire[i] ELSE 0]

\* the gossip_frame of a chunk: uid || transmission_info || encoded packet,
\* each scaled down to one byte
frame_of(c) == <<c.uid, c.info, c.esi>>

\* ChunkedPayload::uid, transmission_info, encoded_chunk
chunk_of(bp) ==
    [uid |-> bp.gossip_frame[1], info |-> bp.gossip_frame[2],
     esi |-> bp.gossip_frame[3], height |-> bp.height]

\* the peer 192.168.0.1:666 and another host
InSender == V4(<<192, 168, 0, 1>>)
InOther == V4(<<10, 0, 0, 1>>)

InAddrs == {InSender, InOther}

\* the header of the peer, as it sends it and with another sender_port
InHeaders ==
    {as_header(InSender, 666), [as_header(InSender, 666) EXCEPT !.sender_port = 333]}

\* the chunks of one encoding of a payload, sent at height 0
InChunks == encode(1, 1, 0)

InMessages ==
    {[kind |-> "Ping", header |-> h, payload |-> None] : h \in InHeaders}
    \cup {[kind |-> "Broadcast", header |-> h,
           payload |-> [height |-> c.height, gossip_frame |-> frame_of(c)]] :
             h \in InHeaders, c \in InChunks}

\* a datagram: the bytes of a message, or a byte that is no message kind,
\* and the address recv_from reports
InDatagrams ==
    {[addr |-> a, wire |-> w] :
        a \in InAddrs, w \in {marshal_message(m) : m \in InMessages} \cup {<<5>>}}

\* what the iteration before the last one did
LastOutcome == IF is_some(last) THEN unwrap(last).outcome ELSE "none"

\* the record of an iteration: the datagram, what became of it
Iteration(d, outcome) ==
    Some([d |-> d, outcome |-> outcome, before |-> LastOutcome])

\* listen_in, the arm `if let Some(message) = to_process`: verify_header,
\* then try_send or the error log
Process(message, d) ==
    IF verify_header(message.header, d.addr)
    THEN /\ chan' = try_send(chan, [message |-> message, addr |-> d.addr])
         /\ last' = Iteration(Some(d), IF Len(chan) < ChannelSize THEN "Sent" ELSE "Full")
    ELSE /\ UNCHANGED chan
         /\ last' = Iteration(Some(d), "Invalid")

\* an iteration that verified the header before giving the message to the
\* decoder
ListenInVerified(d) ==
    /\ running
    /\ LET deser == unmarshal_message(recv_buffer(d.wire)) IN
       IF ~deser.ok
       THEN /\ last' = Iteration(Some(d), "DecodeError")
            /\ UNCHANGED <<chan, dec_vars>>
       ELSE IF ~verify_header(deser.val.header, d.addr)
       THEN /\ last' = Iteration(Some(d), "Invalid")
            /\ UNCHANGED <<chan, dec_vars>>
       ELSE IF deser.val.kind # "Broadcast"
       THEN /\ dresult' = Some(deser.val)
            /\ UNCHANGED <<dcache, fed, returned>>
            /\ Process(deser.val, d)
       ELSE LET c == chunk_of(deser.val.payload)
                key == safe_uid(c)
            IN /\ c.esi \in fed[key] \/ TotalFed < MaxFeeds
               /\ fed' = [fed EXCEPT ![key] = @ \cup {c.esi}]
               /\ IF dcache[key].state = "Delivered"
                  THEN /\ dresult' = None
                       /\ UNCHANGED <<dcache, returned, chan>>
                       /\ last' = Iteration(Some(d), "None")
                  ELSE LET syms == dcache[key].syms \cup {c.esi} IN
                       \E done \in yields(syms) :
                          IF done
                          THEN LET P == [height |-> c.height, gossip_frame |-> c.uid] IN
                               /\ dcache' = [dcache EXCEPT ![key] = Delivered]
                               /\ returned' = [returned EXCEPT ![c.uid] = @ + 1]
                               /\ dresult' = Some(P)
                               /\ Process([deser.val EXCEPT !.payload = P], d)
                          ELSE /\ dcache' = [dcache EXCEPT ![key] = Receiving(syms)]
                               /\ dresult' = None
                               /\ UNCHANGED <<returned, chan>>
                               /\ last' = Iteration(Some(d), "None")
    /\ UNCHANGED running
    /\ UNCHANGED in_frame

\* WireNetwork::listen_in, one iteration of the loop on the datagram d:
\* unmarshal, decoder.decode (as Decode, the message it returns carrying the
\* header of the chunk that completed it), verify_header, try_send
ListenIn(d) ==
    /\ running
    /\ LET deser == unmarshal_message(recv_buffer(d.wire)) IN
       IF ~deser.ok
       THEN /\ last' = Iteration(Some(d), "DecodeError")
            /\ UNCHANGED <<chan, dec_vars>>
       ELSE IF deser.val.kind # "Broadcast"
       THEN /\ dresult' = Some(deser.val)
            /\ UNCHANGED <<dcache, fed, returned>>
            /\ Process(deser.val, d)
       ELSE LET c == chunk_of(deser.val.payload)
                key == safe_uid(c)
            IN /\ c.esi \in fed[key] \/ TotalFed < MaxFeeds
               /\ fed' = [fed EXCEPT ![key] = @ \cup {c.esi}]
               /\ IF dcache[key].state = "Delivered"
                  THEN /\ dresult' = None
                       /\ UNCHANGED <<dcache, returned, chan>>
                       /\ last' = Iteration(Some(d), "None")
                  ELSE LET syms == dcache[key].syms \cup {c.esi} IN
                       \E done \in yields(syms) :
                          IF done
                          THEN LET P == [height |-> c.height, gossip_frame |-> c.uid] IN
                               /\ dcache' = [dcache EXCEPT ![key] = Delivered]
                               /\ returned' = [returned EXCEPT ![c.uid] = @ + 1]
                               /\ dresult' = Some(P)
                               /\ Process([deser.val EXCEPT !.payload = P], d)
                          ELSE /\ dcache' = [dcache EXCEPT ![key] = Receiving(syms)]
                               /\ dresult' = None
                               /\ UNCHANGED <<returned, chan>>
                               /\ last' = Iteration(Some(d), "None")
    /\ UNCHANGED running
    /\ UNCHANGED in_frame

\* socket.recv_from(&mut bytes).await? on an I/O error: listen_in returns
RecvError ==
    /\ running
    /\ running' = FALSE
    /\ last' = Iteration(None, "RecvError")
    /\ UNCHANGED <<chan, dec_vars>>
    /\ UNCHANGED in_frame

\* the routing/broadcast task takes a message off the channel
ChanRecv ==
    /\ Len(chan) > 0
    /\ chan' = Tail(chan)
    /\ UNCHANGED <<running, last, dec_vars>>
    /\ UNCHANGED in_frame

NextInbound ==
    \/ \E d \in InDatagrams : ListenIn(d)
    \/ RecvError
    \/ ChanRecv

\* listen_in has bound its socket and entered the loop with a fresh decoder
InitInbound ==
    /\ running = TRUE
    /\ chan = <<>>
    /\ last = None
    /\ InitDecoder
    /\ InitBucket
    /\ NetIdle
    /\ PureIdle

SpecInbound == InitInbound /\ [][NextInbound]_vars

\* the last iteration, its datagram and the message unmarshalled from it
Iterated == is_some(last) /\ is_some(unwrap(last).d)
LastDatagram == unwrap(unwrap(last).d)
LastDeser == unmarshal_message(recv_buffer(LastDatagram.wire))

\* the header of a message is not the one of (ip, its sender_port)
Mismatch(message, ip) ==
    message.header.binary_id # compute_id(ip, message.header.sender_port)

\* the last datagram held a message whose sender_id does not match
LastMismatched ==
    /\ Iterated
    /\ LastDeser.ok
    /\ Mismatch(LastDeser.val, LastDatagram.addr)

\* a step that ends an iteration with this outcome
Ends(outcome) == last' # last /\ unwrap(last').outcome = outcome

\* C27: a received message whose header sender_id is not
\* compute_id(observed source IP, header sender_port) is never placed on
\* the inbound channel, and the receive loop goes on to the next datagram.
C27_MismatchNeverEnqueued ==
    /\ \A k \in 1..Len(chan) : ~Mismatch(chan[k].message, chan[k].addr)
    /\ LastMismatched =>
          /\ unwrap(last).outcome \in {"Invalid", "None"}
          /\ running
          /\ ENABLED (\E d \in InDatagrams : ListenIn(d))

\* C27 witness: a message with a mismatched header was dropped and the
\* next datagram, from the sender it names, went to the channel
C27_Witness ==
    /\ Iterated
    /\ unwrap(last).outcome = "Sent"
    /\ unwrap(last).before = "Invalid"
    /\ Len(chan) > 0
    /\ chan[Len(chan)].addr = InSender

\* the last datagram held a Broadcast chunk
LastWasChunk == Iterated /\ LastDeser.ok /\ LastDeser.val.kind = "Broadcast"
LastChunk == chunk_of(LastDeser.val.payload)

\* C28: in the inbound loop the sender ID is verified only on the message
\* the decoder returns, after the received chunk has been given to the
\* decoder cache: a Broadcast chunk updates the cache whether or not its
\* header would verify, and a reassembled message is enqueued or dropped on
\* the header of the chunk that completed it alone.
C28_VerifiedAfterDecode ==
    LastWasChunk =>
        LET key == safe_uid(LastChunk)
            o == unwrap(last).outcome
        IN /\ LastChunk.esi \in fed[key]
           /\ dcache[key].state # "Absent"
           /\ dcache[key].state = "Receiving" => LastChunk.esi \in dcache[key].syms
           /\ o \in {"None", "Invalid", "Sent", "Full"}
           /\ o # "None" => dcache[key].state = "Delivered"
           /\ o \in {"Sent", "Full"} <=> (o # "None" /\ ~LastMismatched)
           /\ o = "Invalid" <=> (o # "None" /\ LastMismatched)

\* C28 witness: the first datagram ever received was a Broadcast chunk with
\* a header that does not verify; its symbol is in the decoder cache
C28_Witness ==
    /\ LastWasChunk
    /\ LastMismatched
    /\ unwrap(last).before = "none"
    /\ unwrap(last).outcome = "None"
    /\ dcache[safe_uid(LastChunk)] = Receiving({LastChunk.esi})
    /\ fed[safe_uid(LastChunk)] = {LastChunk.esi}

fec_redundancy_pct == 15

\* BroadcastPayload::bytes
payload_bytes(bp) == marshal_broadcast(bp)

\* a UID that hashes the height along with the gossip_frame
generate_uid_with_height(bp) == Blake2s(payload_bytes(bp))

\* BroadcastPayload::generate_uid on the bytes of the payload: BLAKE2s of
\* bytes()[1..], the payload without its height
generate_uid_bytes(bp) == Blake2s(Tail(payload_bytes(bp)))

\* encoder.get_config().serialize(): the transmission info, a function of
\* the length of the data and of the MTU; two bytes stand for its twelve
get_config_serialize(data, mtu) == <<Len(data) % U8, mtu % U8>>

\* the source packets of the data: one per symbol of the size of the MTU
source_packets(data, mtu) == (Len(data) + mtu - 1) \div mtu

\* the repair packets encode asks for: the f32 product cast to u32, raised
\* to min_repair_packets_per_block
requested_repair_packets(data, mtu) ==
    LET share == (Len(data) * fec_redundancy_pct) \div (100 * mtu)
    IN IF share < min_repair_packets_per_block
       THEN min_repair_packets_per_block ELSE share

\* RaptorQEncoderConf, fec_redundancy in hundredths
RaptorQEncoderConf(min, mtu, fec) ==
    [min_repair_packets_per_block |-> min, mtu |-> mtu, fec_redundancy |-> fec]

\* the same computation under any configuration, on a gossip_frame of len
\* bytes: (len as f32 * fec_redundancy / mtu as f32) as u32 drops the
\* fraction, and the result is raised to min_repair_packets_per_block
repair_packets_of(len, conf) ==
    LET repair_packets_ == (len * conf.fec_redundancy) \div (100 * conf.mtu)
    IN IF repair_packets_ < conf.min_repair_packets_per_block
       THEN conf.min_repair_packets_per_block ELSE repair_packets_

\* encoder.get_encoded_packets(repair_packets), each packet serialized: the
\* source packets, then the repair packets, one byte standing for each
get_encoded_packets(data, mtu, repair) ==
    [i \in 1..(source_packets(data, mtu) + repair) |-> <<i>>]

\* RaptorQEncoder::encode with conf.mtu = mtu
encode_message(msg, mtu) ==
    IF msg.kind = "Broadcast"
    THEN LET payload == msg.payload
             transmission_info_ == get_config_serialize(payload.gossip_frame, mtu)
             base_packet == generate_uid_bytes(payload) \o transmission_info_
             packets == get_encoded_packets(payload.gossip_frame, mtu,
                            requested_repair_packets(payload.gossip_frame, mtu))
         IN [i \in 1..Len(packets) |->
                [kind |-> "Broadcast", header |-> msg.header,
                 payload |-> [height |-> payload.height,
                              gossip_frame |-> base_packet \o packets[i]]]]
    ELSE <<msg>>

\* the messages handed to encode: a Broadcast has a gossip_frame to encode
EncoderInputs ==
    {m \in Messages : m.kind = "Broadcast" => m.payload.gossip_frame # <<>>}

\* test_encode: one call of encode, on any of the messages
EncodeMessage(m, mtu) ==
    /\ call = None
    /\ call' = Some([fn |-> "encode", arg |-> m, mtu |-> mtu])
    /\ value' = encode_message(m, mtu)
    /\ UNCHANGED pure_frame

NextEncode == \E m \in EncoderInputs, mtu \in Mtus : EncodeMessage(m, mtu)

SpecEncode == InitCodec /\ [][NextEncode]_vars

\* bytes of a UID and of a transmission-info block in a chunk
UidLen == 2 * K_ID_LEN_BYTES
InfoLen == Len(get_config_serialize(<<>>, 1))

\* C30: encode of a Broadcast emits source_packets + repair_packets
\* Broadcast messages, each with the header and the height of the input
\* and a gossip_frame that begins with the UID of the original gossip_frame
\* followed by the transmission-info block, the same prefix on every chunk
\* and none of it depending on the height; encode of a Ping, Pong,
\* FindNodes or Nodes message returns that one message unchanged.
C30_EncodeChunks ==
    Called("encode") =>
        LET m == unwrap(call).arg
            mtu == unwrap(call).mtu
        IN IF m.kind = "Broadcast"
           THEN LET data == m.payload.gossip_frame
                    prefix == Blake2s(data) \o get_config_serialize(data, mtu)
                IN /\ Len(value) = source_packets(data, mtu)
                                     + requested_repair_packets(data, mtu)
                   /\ Len(value) > 0
                   /\ Len(prefix) = UidLen + InfoLen
                   /\ \A i \in 1..Len(value) :
                         /\ value[i].kind = "Broadcast"
                         /\ value[i].header = m.header
                         /\ value[i].payload.height = m.payload.height
                         /\ Len(value[i].payload.gossip_frame) > Len(prefix)
                         /\ SubSeq(value[i].payload.gossip_frame, 1, Len(prefix)) = prefix
           ELSE value = <<m>>

\* C30 witness: a Broadcast of height 255 whose gossip_frame fills two
\* source packets was encoded into three or more chunks
C30_Witness ==
    /\ Called("encode")
    /\ unwrap(call).arg.kind = "Broadcast"
    /\ unwrap(call).arg.payload.height = 255
    /\ source_packets(unwrap(call).arg.payload.gossip_frame, unwrap(call).mtu) >= 2
    /\ Len(value) >= 3
    /\ value[Len(value)].payload.height = 255

\* ------------------------------------------------------------- repair packets
\* the longest gossip_frame of a repair-packet computation
MaxDataLen == 10

\* fec_redundancy of a configuration, in hundredths
Redundancies == {fec_redundancy_pct, 50, 100}

\* the configurations of an encoder
EncoderConfs ==
    {RaptorQEncoderConf(min, mtu, fec) :
        min \in 0..min_repair_packets_per_block, mtu \in Mtus, fec \in Redundancies}

\* encode of a Broadcast whose gossip_frame has len bytes, up to the
\* repair packets it asks the fountain encoder for
RepairPackets(len, conf) ==
    /\ call = None
    /\ call' = Some([fn |-> "repair_packets", len |-> len, conf |-> conf])
    /\ value' = repair_packets_of(len, conf)
    /\ UNCHANGED pure_frame

NextRepair == \E len \in 1..MaxDataLen, conf \in EncoderConfs : RepairPackets(len, conf)

SpecRepair == InitCodec /\ [][NextRepair]_vars

\* the least integer not below a / b
ceiling_div(a, b) == (a + b - 1) \div b

\* C31: for every gossip_frame length, MTU and redundancy ratio, the
\* number of repair packets the encoder requests is the larger of
\* min_repair_packets_per_block and the ceiling of
\* len(gossip_frame) * fec_redundancy / mtu.
C31_RepairPacketsCeiling ==
    Called("repair_packets") =>
        LET len == unwrap(call).len
            conf == unwrap(call).conf
            ceiling == ceiling_div(len * conf.fec_redundancy, 100 * conf.mtu)
        IN value = IF ceiling < conf.min_repair_packets_per_block
                   THEN conf.min_repair_packets_per_block ELSE ceiling

\* ------------------------------------------------------------- peer info calls
\* what follows a marshalled peer in the buffer it is read from: nothing,
\* or the next peer of the list
Followers == {<<>>} \cup {marshal_peer(next) : next \in PeerInfos}

\* marshal a PeerEncodedInfo, unmarshal it from the bytes written and what
\* follows them
MarshalPeer(peer, follower) ==
    LET bytes == marshal_peer(peer) IN
    /\ call = None
    /\ call' = Some([fn |-> "PeerEncodedInfo", arg |-> peer, bytes |-> bytes,
                     follower |-> follower])
    /\ value' = unmarshal_peer(bytes \o follower)
    /\ UNCHANGED pure_frame

NextPeerInfo ==
    \E peer \in PeerInfos, follower \in Followers : MarshalPeer(peer, follower)

SpecPeerInfo == InitCodec /\ [][NextPeerInfo]_vars

\* C32: for every PeerEncodedInfo with any IPv4 address (one whose first
\* octet is 0 included) or any IPv6 address, any port and any id,
\* unmarshalling the bytes produced by marshalling it yields an equal
\* PeerEncodedInfo and consumes exactly the bytes written.
C32_PeerInfoRoundTrip ==
    Called("PeerEncodedInfo") =>
        /\ value.ok
        /\ value.val = unwrap(call).arg
        /\ value.rest = unwrap(call).follower

====
